---- MODULE Spec2Model ----
(***************************************************************************)
(* A model of the LHEF reader of src/src/lib.rs.                           *)
(*                                                                         *)
(* Text.  A Rust String is modelled as a sequence of atoms.  An atom is    *)
(* the newline "\n", the blank " ", the double quote, or a word: an        *)
(* indivisible run of characters holding no whitespace and no quote.  The  *)
(* words form a prefix-free vocabulary, so two texts are equal as strings  *)
(* exactly when they are equal as sequences of atoms.  Numerals are single *)
(* words and a generated text never puts two words side by side inside a   *)
(* numeric token.                                                          *)
(*                                                                         *)
(* Results.  Every parser returns [kind, val, rest]: kind is "Ok", "Err"   *)
(* or "Panic" (an unwinding panic of the Rust code), val the value or the  *)
(* error, rest the stream left unread.  Option<T> is a sequence of length  *)
(* at most one.                                                            *)
(***************************************************************************)
EXTENDS Integers, Sequences, FiniteSets, TLC

VARIABLES
    stream,     \* Reader.stream: the text not yet read
    prev,       \* the stream as it was before the latest call
    state,      \* "start" | "ready" | "failed" | "panicked"
    version,    \* Reader.version
    header,     \* Reader.header
    heprup,     \* Reader.heprup
    newResult,  \* what Reader::new returned: [kind, val]
    result,     \* what the latest Reader::event returned: [kind, val]
    history,    \* the kinds of all Reader::event results so far
    doc,        \* the input document: [text, kind, nevents, base]
    arg,        \* input of the function under study (function specifications)
    out         \* its output

vars == <<stream, prev, state, version, header, heprup, newResult, result,
          history, doc, arg, out>>

(***************************************************************************)
(* Literal tags                                                            *)
(***************************************************************************)
Quote == "\""
LHEF_TAG_OPEN == <<"<LesHouchesEvents", " ", "version=">>
COMMENT_START == <<"<!--">>
COMMENT_END == <<"-->">>
HEADER_START == <<"<header>">>
HEADER_END == <<"</header>">>
INIT_START == <<"<init>">>
INIT_END == <<"</init>">>
EVENT_START == <<"<event>">>
EVENT_END == <<"</event>">>
LHEF_LAST_LINE == <<"</LesHouchesEvents>">>

(***************************************************************************)
(* Text primitives of the standard library, as the code uses them          *)
(***************************************************************************)
\* char::is_whitespace, on the atoms of the model
Whitespace == {" ", "\n"}

\* Index of the first atom of s satisfying "is c", 0 when there is none
FirstIndex(s, c) ==
    IF \E i \in 1..Len(s) : s[i] = c
    THEN CHOOSE i \in 1..Len(s) : s[i] = c /\ \A j \in 1..(i-1) : s[j] # c
    ELSE 0

\* Index of the last atom of s equal to c, 0 when there is none
LastIndex(s, c) ==
    IF \E i \in 1..Len(s) : s[i] = c
    THEN CHOOSE i \in 1..Len(s) : s[i] = c /\ \A j \in (i+1)..Len(s) : s[j] # c
    ELSE 0

\* BufRead::read_line: the text up to and including the next newline, or
\* all that is left; n = 0 signals the end of the input
read_line(s) ==
    LET cut(n) == [line |-> SubSeq(s, 1, n), rest |-> SubSeq(s, n+1, Len(s)), n |-> n]
    IN cut(IF FirstIndex(s, "\n") = 0 THEN Len(s) ELSE FirstIndex(s, "\n"))

RECURSIVE trim_start(_)
trim_start(s) ==
    IF s # <<>> /\ Head(s) \in Whitespace THEN trim_start(Tail(s)) ELSE s

RECURSIVE trim_end(_)
trim_end(s) ==
    IF s # <<>> /\ s[Len(s)] \in Whitespace
    THEN trim_end(SubSeq(s, 1, Len(s)-1))
    ELSE s

\* str::trim
trim(s) == trim_end(trim_start(s))

\* s.lines().last(): lines() cuts at newlines, the final one being optional
lines_last(s) ==
    IF s = <<>> THEN <<>>
    ELSE LET body == IF s[Len(s)] = "\n" THEN SubSeq(s, 1, Len(s)-1) ELSE s
             p == LastIndex(body, "\n")
         IN <<SubSeq(body, p+1, Len(body))>>

\* s.split(c), collected
RECURSIVE split(_, _)
split(s, c) ==
    LET p == FirstIndex(s, c)
    IN IF p = 0 THEN <<s>>
       ELSE <<SubSeq(s, 1, p-1)>> \o split(SubSeq(s, p+1, Len(s)), c)

\* Length of the leading run of non-whitespace atoms of s
RECURSIVE WordRun(_)
WordRun(s) ==
    IF s = <<>> \/ Head(s) \in Whitespace THEN 0 ELSE 1 + WordRun(Tail(s))

\* s.split_whitespace(), collected
RECURSIVE split_whitespace(_)
split_whitespace(s) ==
    LET t == trim_start(s)
        n == WordRun(t)
    IN IF t = <<>> THEN <<>>
       ELSE <<SubSeq(t, 1, n)>> \o split_whitespace(SubSeq(t, n+1, Len(t)))

\* Iterator::next at position k of a collected iterator
NextEntry(entries, k) == IF k <= Len(entries) THEN <<entries[k]>> ELSE <<>>

(***************************************************************************)
(* Results and errors                                                      *)
(***************************************************************************)
Ok(v, rest) == [kind |-> "Ok", val |-> v, rest |-> rest]
Err(e, rest) == [kind |-> "Err", val |-> e, rest |-> rest]
Panic(msg, rest) ==
    [kind |-> "Panic", val |-> [tag |-> "panic", arg |-> <<msg>>], rest |-> rest]

BadFirstLine(line) == [tag |-> "BadFirstLine", arg |-> line]
BadHeaderStart(line) == [tag |-> "BadHeaderStart", arg |-> line]
BadEventStart(line) == [tag |-> "BadEventStart", arg |-> line]
MissingEntry(name) == [tag |-> "MissingEntry", arg |-> name]
ConversionError(text) == [tag |-> "ConversionError", arg |-> text]
UnsupportedVersion(v) == [tag |-> "UnsupportedVersion", arg |-> v]
MissingVersion == [tag |-> "MissingVersion", arg |-> <<>>]
EndOfFile(block) == [tag |-> "EndOfFile", arg |-> <<block>>]

(***************************************************************************)
(* parse_version                                                           *)
(***************************************************************************)
SupportedVersions == {<<"1.0">>, <<"2.0">>, <<"3.0">>}

\* Mutant of parse_version: the closing '>' is checked before the version
parse_version_closing_first(s) ==
    LET match(first_line, rest, e1, e2, e3) ==
            IF e1 # <<LHEF_TAG_OPEN>> THEN Err(BadFirstLine(first_line), rest)
            ELSE IF e2 = <<>> THEN Err(MissingVersion, rest)
            ELSE IF e3 # <<(<<">">>)>> THEN Err(BadFirstLine(first_line), rest)
            ELSE IF e2[1] \notin SupportedVersions
                 THEN Err(UnsupportedVersion(e2[1]), rest)
            ELSE Ok(e2[1], rest)
        entries(first_line, rest, line_entries) ==
            match(first_line, rest, NextEntry(line_entries, 1),
                  NextEntry(line_entries, 2), NextEntry(line_entries, 3))
        line(rl) == entries(rl.line, rl.rest, split(trim(rl.line), Quote))
    IN line(read_line(s))

parse_version(s) ==
    LET match(first_line, rest, e1, e2, e3) ==
            IF e1 # <<LHEF_TAG_OPEN>> THEN Err(BadFirstLine(first_line), rest)
            ELSE IF e2 = <<>> THEN Err(MissingVersion, rest)
            ELSE IF e2[1] \notin SupportedVersions
                 THEN Err(UnsupportedVersion(e2[1]), rest)
            ELSE IF e3 # <<(<<">">>)>> THEN Err(BadFirstLine(first_line), rest)
            ELSE Ok(e2[1], rest)
        entries(first_line, rest, line_entries) ==
            match(first_line, rest, NextEntry(line_entries, 1),
                  NextEntry(line_entries, 2), NextEntry(line_entries, 3))
        line(rl) == entries(rl.line, rl.rest, split(trim(rl.line), Quote))
    IN line(read_line(s))

(***************************************************************************)
(* pop_line                                                                *)
(***************************************************************************)
\* String::pop: drops the last atom, a no-op on the empty text
pop(s) == IF s = <<>> THEN s ELSE SubSeq(s, 1, Len(s)-1)

RECURSIVE pop_to_newline(_)
pop_to_newline(s) ==
    IF s # <<>> /\ s[Len(s)] # "\n" THEN pop_to_newline(pop(s)) ELSE s

\* Mutant of pop_line: only the line terminator is dropped
pop_line_terminator(s) == pop(s)

pop_line(s) == pop_to_newline(pop(s))

(***************************************************************************)
(* parse_header and its two sub-loops                                      *)
(***************************************************************************)
\* Mutant of parse_comment_header: the closing marker of either block closes
RECURSIVE parse_comment_header_any_closer(_, _)
parse_comment_header_any_closer(s, hdr) ==
    LET turn(rl, h) ==
            IF rl.n = 0 THEN Err(EndOfFile("header"), rl.rest)
            ELSE IF trim(lines_last(h)[1]) \in {COMMENT_END, HEADER_END} THEN Ok(h, rl.rest)
            ELSE parse_comment_header_any_closer(rl.rest, h)
        line(rl) == turn(rl, hdr \o rl.line)
    IN line(read_line(s))

RECURSIVE parse_comment_header(_, _)
parse_comment_header(s, hdr) ==
    LET turn(rl, h) ==
            IF rl.n = 0 THEN Err(EndOfFile("header"), rl.rest)
            ELSE IF trim(lines_last(h)[1]) = COMMENT_END THEN Ok(h, rl.rest)
            ELSE parse_comment_header(rl.rest, h)
        line(rl) == turn(rl, hdr \o rl.line)
    IN line(read_line(s))

RECURSIVE parse_structured_header(_, _)
parse_structured_header(s, hdr) ==
    LET turn(rl, h) ==
            IF rl.n = 0 THEN Err(EndOfFile("header"), rl.rest)
            ELSE IF trim(lines_last(h)[1]) = HEADER_END THEN Ok(h, rl.rest)
            ELSE parse_structured_header(rl.rest, h)
        line(rl) == turn(rl, hdr \o rl.line)
    IN line(read_line(s))

\* One turn of the loop of parse_header, hdr being the text gathered so
\* far.  lines().last() of an empty buffer is None, and unwrap() panics.
RECURSIVE parse_header_loop(_, _)
parse_header_loop(s, hdr) ==
    LET block(sub) ==
            IF sub.kind = "Ok" THEN parse_header_loop(sub.rest, sub.val) ELSE sub
        match(rest, h, t) ==
            IF t = COMMENT_START THEN block(parse_comment_header(rest, h))
            ELSE IF t = HEADER_START THEN block(parse_structured_header(rest, h))
            ELSE IF t = INIT_START THEN Ok(pop_line(h), rest)
            ELSE Err(BadHeaderStart(t), rest)
        turn(rest, h, last) ==
            IF last = <<>> THEN Panic("unwrap on None", rest)
            ELSE match(rest, h, trim(last[1]))
        line(rl) == turn(rl.rest, hdr \o rl.line, lines_last(hdr \o rl.line))
    IN line(read_line(s))

parse_header(s) == parse_header_loop(s, <<>>)

(***************************************************************************)
(* The field decoder, parse::<T>                                           *)
(***************************************************************************)
\* The integers whose decimal numerals are words of the model
Numerals == -9..9

\* <i32 as FromStr>::from_str: an optional sign and digits
from_str_i32(text) ==
    IF Len(text) = 1 /\ \E i \in Numerals : ToString(i) = text[1]
    THEN <<CHOOSE i \in Numerals : ToString(i) = text[1]>>
    ELSE IF text = <<"+1">> THEN <<1>>
    ELSE <<>>

\* <f64 as FromStr>::from_str.  An f64 is modelled by its number of tenths,
\* so that "1", "1.0" and "+1" all decode to 10.
from_str_f64(text) ==
    LET decimal(int) ==
            IF int # <<>> THEN <<10 * int[1]>>
            ELSE IF text = <<"0.5">> THEN <<5>>
            ELSE IF text = <<"1.0">> THEN <<10>>
            ELSE IF text = <<"1.5">> THEN <<15>>
            ELSE IF text = <<"-1.5">> THEN <<-15>>
            ELSE <<>>
    IN decimal(from_str_i32(text))

from_str(T, text) == IF T = "i32" THEN from_str_i32(text) ELSE from_str_f64(text)

\* Mutant of parse: an absent token is decoded as the empty text
parse_absent_as_empty(T, name, text) ==
    LET convert(t, raw) ==
            IF t = <<>> THEN Err(ConversionError(raw), <<>>)
            ELSE Ok(t[1], <<>>)
    IN IF text = <<>> THEN convert(from_str(T, <<>>), <<>>)
       ELSE convert(from_str(T, text[1]), text[1])

\* parse::<T>(name, text), text an Option<&str>
parse(T, name, text) ==
    LET convert(t) ==
            IF t = <<>> THEN Err(ConversionError(text[1]), <<>>)
            ELSE Ok(t[1], <<>>)
    IN IF text = <<>> THEN Err(MissingEntry(name), <<>>)
       ELSE convert(from_str(T, text[1]))

\* Mutant of parse_fields: a token left after the last field is an error
RECURSIVE parse_fields_exact(_, _, _, _)
parse_fields_exact(fields, entries, k, acc) ==
    LET try(r) ==
            IF r.kind = "Ok"
            THEN parse_fields_exact(fields, entries, k+1, Append(acc, r.val))
            ELSE r
    IN IF k > Len(fields)
       THEN IF k <= Len(entries) THEN Err(ConversionError(entries[k]), <<>>)
            ELSE Ok(acc, <<>>)
       ELSE try(parse(fields[k].T, fields[k].name, NextEntry(entries, k)))

\* A run of parse::<T>(name, entries.next())? calls in the order of fields:
\* the values, or the error of the first call that fails
RECURSIVE parse_fields(_, _, _, _)
parse_fields(fields, entries, k, acc) ==
    LET try(r) ==
            IF r.kind = "Ok"
            THEN parse_fields(fields, entries, k+1, Append(acc, r.val))
            ELSE r
    IN IF k > Len(fields) THEN Ok(acc, <<>>)
       ELSE try(parse(fields[k].T, fields[k].name, NextEntry(entries, k)))

Field(T, name) == [T |-> T, name |-> name]

\* Mutant of Indexed: the row index is written as the loop counts it
Indexed_zero_based(name, i) == <<name, "(", ToString(i), ")">>

\* format!("NAME({})", i+1) and format!("NAME({}, j)", i+1)
Indexed(name, i) == <<name, "(", ToString(i+1), ")">>
Indexed2(name, i, j) == <<name, "(", ToString(i+1), ",", " ", ToString(j), ")">>

\* Mutant of with_capacity_panics: the capacity is never checked
with_capacity_unchecked(n) == FALSE

\* Vec::with_capacity(n as usize): a negative i32 casts to a usize above
\* isize::MAX, for which with_capacity panics with "capacity overflow"
with_capacity_panics(n) == n < 0

(***************************************************************************)
(* parse_init                                                              *)
(***************************************************************************)
\* Mutant of InitFields: two more fields are read from the fixed record
InitFields_twelve ==
    << Field("i32", <<"IDBMUP(1)">>), Field("i32", <<"IDBMUP(2)">>),
       Field("f64", <<"EBMUP(1)">>),  Field("f64", <<"EBMUP(2)">>),
       Field("i32", <<"PDFGUP(1)">>), Field("i32", <<"PDFGUP(2)">>),
       Field("i32", <<"PDFSUP(1)">>), Field("i32", <<"PDFSUP(2)">>),
       Field("i32", <<"IDWTUP">>),    Field("i32", <<"NPRUP">>),
       Field("f64", <<"XSECUP">>),    Field("i32", <<"LPRUP">>) >>

InitFields ==
    << Field("i32", <<"IDBMUP(1)">>), Field("i32", <<"IDBMUP(2)">>),
       Field("f64", <<"EBMUP(1)">>),  Field("f64", <<"EBMUP(2)">>),
       Field("i32", <<"PDFGUP(1)">>), Field("i32", <<"PDFGUP(2)">>),
       Field("i32", <<"PDFSUP(1)">>), Field("i32", <<"PDFSUP(2)">>),
       Field("i32", <<"IDWTUP">>),    Field("i32", <<"NPRUP">>) >>

InitRowFields(i) ==
    << Field("f64", Indexed("XSECUP", i)), Field("f64", Indexed("XERRUP", i)),
       Field("f64", Indexed("XMAXUP", i)), Field("i32", Indexed("LPRUP", i)) >>

\* for i in 0..NPRUP: one line, four pushes; rows holds the rows pushed
RECURSIVE init_rows(_, _, _, _)
init_rows(s, i, NPRUP, rows) ==
    LET try(rest, r) ==
            IF r.kind = "Ok" THEN init_rows(rest, i+1, NPRUP, Append(rows, r.val))
            ELSE Err(r.val, rest)
        line(rl) ==
            try(rl.rest, parse_fields(InitRowFields(i), split_whitespace(rl.line), 1, <<>>))
    IN IF i >= NPRUP THEN Ok(rows, s) ELSE line(read_line(s))

\* Mutant of init_info: the last line is compared trimmed, as in parse_event
RECURSIVE init_info_trimmed(_, _)
init_info_trimmed(s, info) ==
    LET turn(rl, inf) ==
            IF rl.n = 0 THEN Err(EndOfFile("init"), rl.rest)
            ELSE IF trim(lines_last(inf)[1]) = INIT_END THEN Ok(pop_line(inf), rl.rest)
            ELSE init_info_trimmed(rl.rest, inf)
        line(rl) == turn(rl, info \o rl.line)
    IN line(read_line(s))

\* the closing loop of parse_init: the untrimmed last line is compared
RECURSIVE init_info(_, _)
init_info(s, info) ==
    LET turn(rl, inf) ==
            IF rl.n = 0 THEN Err(EndOfFile("init"), rl.rest)
            ELSE IF lines_last(inf)[1] = INIT_END THEN Ok(pop_line(inf), rl.rest)
            ELSE init_info(rl.rest, inf)
        line(rl) == turn(rl, info \o rl.line)
    IN line(read_line(s))

Column(rows, c) == [k \in 1..Len(rows) |-> rows[k][c]]
Columns(rows, c, d) == [k \in 1..Len(rows) |-> SubSeq(rows[k], c, d)]

parse_init(s) ==
    LET close(v, rows, inf) ==
            IF inf.kind # "Ok" THEN inf
            ELSE Ok([IDBMUP |-> SubSeq(v, 1, 2), EBMUP |-> SubSeq(v, 3, 4),
                     PDFGUP |-> SubSeq(v, 5, 6), PDFSUP |-> SubSeq(v, 7, 8),
                     IDWTUP |-> v[9], NPRUP |-> v[10],
                     XSECUP |-> Column(rows, 1), XERRUP |-> Column(rows, 2),
                     XMAXUP |-> Column(rows, 3), LPRUP |-> Column(rows, 4),
                     info |-> inf.val], inf.rest)
        table(v, rows) ==
            IF rows.kind # "Ok" THEN rows
            ELSE close(v, rows.val, init_info(rows.rest, <<>>))
        record(rest, head) ==
            IF head.kind # "Ok" THEN Err(head.val, rest)
            ELSE IF with_capacity_panics(head.val[10])
                 THEN Panic("capacity overflow", rest)
            ELSE table(head.val, init_rows(rest, 0, head.val[10], <<>>))
        line(rl) ==
            record(rl.rest, parse_fields(InitFields, split_whitespace(rl.line), 1, <<>>))
    IN line(read_line(s))

(***************************************************************************)
(* parse_event                                                             *)
(***************************************************************************)
EventFields ==
    << Field("i32", <<"NUP">>),    Field("i32", <<"IDRUP">>),
       Field("f64", <<"XWGTUP">>), Field("f64", <<"SCALUP">>),
       Field("f64", <<"AQEDUP">>), Field("f64", <<"AQCDUP">>) >>

EventRowFields(i) ==
    << Field("i32", Indexed("IDUP", i)), Field("i32", Indexed("ISTUP", i)),
       Field("i32", Indexed2("MOTHUP", i, 1)), Field("i32", Indexed2("MOTHUP", i, 2)),
       Field("i32", Indexed2("ICOLUP", i, 1)), Field("i32", Indexed2("ICOLUP", i, 2)),
       Field("f64", Indexed2("PUP", i, 1)), Field("f64", Indexed2("PUP", i, 2)),
       Field("f64", Indexed2("PUP", i, 3)), Field("f64", Indexed2("PUP", i, 4)),
       Field("f64", Indexed2("PUP", i, 5)),
       Field("f64", Indexed("VTIMUP", i)), Field("f64", Indexed("SPINUP", i)) >>

\* Mutant of event_rows: the loop runs over 1..NUP, one row short
RECURSIVE event_rows_short(_, _, _, _)
event_rows_short(s, i, NUP, rows) ==
    LET try(rest, r) ==
            IF r.kind = "Ok" THEN event_rows_short(rest, i+1, NUP, Append(rows, r.val))
            ELSE Err(r.val, rest)
        line(rl) ==
            try(rl.rest, parse_fields(EventRowFields(i), split_whitespace(rl.line), 1, <<>>))
    IN IF i + 1 >= NUP THEN Ok(rows, s) ELSE line(read_line(s))

\* Mutant of event_rows: a row that fails is followed by one more read
RECURSIVE event_rows_reads_on(_, _, _, _)
event_rows_reads_on(s, i, NUP, rows) ==
    LET try(rest, r) ==
            IF r.kind = "Ok" THEN event_rows_reads_on(rest, i+1, NUP, Append(rows, r.val))
            ELSE Err(r.val, read_line(rest).rest)
        line(rl) ==
            try(rl.rest, parse_fields(EventRowFields(i), split_whitespace(rl.line), 1, <<>>))
    IN IF i >= NUP THEN Ok(rows, s) ELSE line(read_line(s))

\* for i in 0..NUP: one line, seven pushes; rows holds the rows pushed
RECURSIVE event_rows(_, _, _, _)
event_rows(s, i, NUP, rows) ==
    LET try(rest, r) ==
            IF r.kind = "Ok" THEN event_rows(rest, i+1, NUP, Append(rows, r.val))
            ELSE Err(r.val, rest)
        line(rl) ==
            try(rl.rest, parse_fields(EventRowFields(i), split_whitespace(rl.line), 1, <<>>))
    IN IF i >= NUP THEN Ok(rows, s) ELSE line(read_line(s))

\* Mutant of event_info: the last line is compared untrimmed, as in parse_init
RECURSIVE event_info_untrimmed(_, _)
event_info_untrimmed(s, info) ==
    LET turn(rl, inf) ==
            IF rl.n = 0 THEN Err(EndOfFile("event"), rl.rest)
            ELSE IF lines_last(inf)[1] = EVENT_END THEN Ok(pop_line(inf), rl.rest)
            ELSE event_info_untrimmed(rl.rest, inf)
        line(rl) == turn(rl, info \o rl.line)
    IN line(read_line(s))

\* the closing loop of parse_event: the trimmed last line is compared
RECURSIVE event_info(_, _)
event_info(s, info) ==
    LET turn(rl, inf) ==
            IF rl.n = 0 THEN Err(EndOfFile("event"), rl.rest)
            ELSE IF trim(lines_last(inf)[1]) = EVENT_END THEN Ok(pop_line(inf), rl.rest)
            ELSE event_info(rl.rest, inf)
        line(rl) == turn(rl, info \o rl.line)
    IN line(read_line(s))

parse_event(s) ==
    LET close(v, rows, inf) ==
            IF inf.kind # "Ok" THEN inf
            ELSE Ok([NUP |-> v[1], IDRUP |-> v[2], XWGTUP |-> v[3],
                     SCALUP |-> v[4], AQEDUP |-> v[5], AQCDUP |-> v[6],
                     IDUP |-> Column(rows, 1), ISTUP |-> Column(rows, 2),
                     MOTHUP |-> Columns(rows, 3, 4), ICOLUP |-> Columns(rows, 5, 6),
                     PUP |-> Columns(rows, 7, 11),
                     VTIMUP |-> Column(rows, 12), SPINUP |-> Column(rows, 13),
                     info |-> inf.val], inf.rest)
        table(v, rows) ==
            IF rows.kind # "Ok" THEN rows
            ELSE close(v, rows.val, event_info(rows.rest, <<>>))
        record(rest, head) ==
            IF head.kind # "Ok" THEN Err(head.val, rest)
            ELSE IF with_capacity_panics(head.val[1])
                 THEN Panic("capacity overflow", rest)
            ELSE table(head.val, event_rows(rest, 0, head.val[1], <<>>))
        line(rl) ==
            record(rl.rest, parse_fields(EventFields, split_whitespace(rl.line), 1, <<>>))
    IN line(read_line(s))

(***************************************************************************)
(* Reader::new and Reader::event                                           *)
(***************************************************************************)
Reader_new(s) ==
    LET init(v, h, r) ==
            IF r.kind # "Ok" THEN r
            ELSE Ok([version |-> v.val, header |-> h.val, heprup |-> r.val], r.rest)
        head(v, h) == IF h.kind # "Ok" THEN h ELSE init(v, h, parse_init(h.rest))
        vers(v) == IF v.kind # "Ok" THEN v ELSE head(v, parse_header(v.rest))
    IN vers(parse_version(s))

\* Mutant of Reader_event: the end of the input is taken for the sentinel
Reader_event_eof_sentinel(s) ==
    LET some(e) ==
            IF e.kind = "Ok" THEN [kind |-> "Some", val |-> e.val, rest |-> e.rest]
            ELSE e
        match(rl, t) ==
            IF t = EVENT_START THEN some(parse_event(rl.rest))
            ELSE IF t = LHEF_LAST_LINE \/ rl.n = 0
                 THEN [kind |-> "None", val |-> <<>>, rest |-> rl.rest]
            ELSE Err(BadEventStart(rl.line), rl.rest)
        line(rl) == match(rl, trim(rl.line))
    IN line(read_line(s))

\* Mutant of Reader_event: only the line terminator is cut before the match
Reader_event_untrimmed(s) ==
    LET some(e) ==
            IF e.kind = "Ok" THEN [kind |-> "Some", val |-> e.val, rest |-> e.rest]
            ELSE e
        match(rl, t) ==
            IF t = <<EVENT_START>> THEN some(parse_event(rl.rest))
            ELSE IF t = <<LHEF_LAST_LINE>>
                 THEN [kind |-> "None", val |-> <<>>, rest |-> rl.rest]
            ELSE Err(BadEventStart(rl.line), rl.rest)
        line(rl) == match(rl, lines_last(rl.line))
    IN line(read_line(s))

\* Mutant of Reader_event: an event whose IDRUP is not in the LPRUP table of
\* the run information is refused
Reader_event_cross_checked(s) ==
    LET some(e) ==
            IF e.kind # "Ok" THEN e
            ELSE IF \A k \in DOMAIN heprup.LPRUP : heprup.LPRUP[k] # e.val.IDRUP
                 THEN Err(ConversionError(<<ToString(e.val.IDRUP)>>), e.rest)
            ELSE [kind |-> "Some", val |-> e.val, rest |-> e.rest]
        match(rl, t) ==
            IF t = EVENT_START THEN some(parse_event(rl.rest))
            ELSE IF t = LHEF_LAST_LINE
                 THEN [kind |-> "None", val |-> <<>>, rest |-> rl.rest]
            ELSE Err(BadEventStart(rl.line), rl.rest)
        line(rl) == match(rl, trim(rl.line))
    IN line(read_line(s))

\* kind "Some" is Ok(Some(event)), "None" is Ok(None)
Reader_event(s) ==
    LET some(e) ==
            IF e.kind = "Ok" THEN [kind |-> "Some", val |-> e.val, rest |-> e.rest]
            ELSE e
        match(rl, t) ==
            IF t = EVENT_START THEN some(parse_event(rl.rest))
            ELSE IF t = LHEF_LAST_LINE
                 THEN [kind |-> "None", val |-> <<>>, rest |-> rl.rest]
            ELSE Err(BadEventStart(rl.line), rl.rest)
        line(rl) == match(rl, trim(rl.line))
    IN line(read_line(s))

(***************************************************************************)
(* Input documents                                                         *)
(***************************************************************************)
MaxNPRUP == 1    \* largest declared subprocess count of a well-formed document
MaxNUP == 1      \* largest declared particle count of a well-formed event
MaxEvents == 2   \* largest number of event blocks of a well-formed document
MaxCalls == MaxEvents + 2   \* Reader::event calls made on one reader

\* The atoms of tokens, one blank between two of them
RECURSIVE Join(_)
Join(tokens) ==
    IF Len(tokens) <= 1 THEN tokens
    ELSE <<Head(tokens), " ">> \o Join(Tail(tokens))

\* The text of a sequence of lines, each ended by a newline
RECURSIVE Flatten(_)
Flatten(lines) ==
    IF lines = <<>> THEN <<>>
    ELSE Head(lines) \o <<"\n">> \o Flatten(Tail(lines))

\* A tag line; a rich document indents it
Tag(tag, rich) == IF rich THEN <<" ">> \o tag \o <<" ">> ELSE tag

VersionLine(v) == LHEF_TAG_OPEN \o <<Quote, v, Quote, ">">>
InitLine(n) == Join(<<"2", "2", "1.5", "+1", "0", "0", "-1", "1", "3", ToString(n)>>)
InitRow(i) == Join(<<"1.5", "0.5", "1.0", ToString(i)>>)
EventLine(n) == Join(<<ToString(n), "7", "1.0", "1.5", "0.5", "0.5">>)
ParticleLine(i) ==
    Join(<<ToString(i), "-1", "0", "0", "1", "0",
           "0", "0", "1.5", "1.5", "0", "0", "9">>)
FreeText == <<"x", " ", "y">>

HeaderLines(rich) ==
    IF rich
    THEN << <<"<!--">>, FreeText, <<"-->", " ">>,
            <<"<header>">>, <<"<init>">>, <<" ", "</header>">> >>
    ELSE <<>>

EventLines(nup, rich) ==
    << Tag(EVENT_START, rich), EventLine(nup) >>
    \o [i \in 1..nup |-> ParticleLine(i)]
    \o (IF rich THEN <<FreeText>> ELSE <<>>)
    \o << Tag(EVENT_END, rich) >>

RECURSIVE AllEventLines(_, _)
AllEventLines(evs, rich) ==
    IF evs = <<>> THEN <<>>
    ELSE EventLines(Head(evs), rich) \o AllEventLines(Tail(evs), rich)

\* The lines of the well-formed document of a shape [rich, nprup, evs]
DocLines(sh) ==
    << VersionLine(IF sh.rich THEN "1.0" ELSE "3.0") >>
    \o HeaderLines(sh.rich)
    \o << Tag(INIT_START, sh.rich), InitLine(sh.nprup) >>
    \o [i \in 1..sh.nprup |-> InitRow(i)]
    \o (IF sh.rich THEN <<FreeText>> ELSE <<>>)
    \o << INIT_END >>
    \o AllEventLines(sh.evs, sh.rich)
    \o << Tag(LHEF_LAST_LINE, sh.rich) >>

\* The particle counts of the events of a document, no event larger than the
\* one before it
EventCounts ==
    UNION { { e \in [1..k -> 0..MaxNUP] : \A i \in 1..(k - 1) : e[i] >= e[i + 1] } :
              k \in 0..MaxEvents }

Shapes ==
    { [rich |-> r, nprup |-> n, evs |-> e] :
        r \in BOOLEAN, n \in 0..MaxNPRUP, e \in EventCounts }

\* Lines put in the place of a line of a well-formed document
DefectLines ==
    { <<>>, <<"x">>, <<" ", "<event>">>, <<"</LesHouchesEvents>", " ">>,
      <<"</event>">>, <<" ", "</init>">>, InitLine(-1), EventLine(-1),
      EventLine(1) }

\* Lines put after the terminating line of a well-formed document
TrailingLines == { <<>>, <<"x">>, <<"<event>">>, <<"</LesHouchesEvents>">> }

Replace(lines, k, l) == [i \in 1..Len(lines) |-> IF i = k THEN l ELSE lines[i]]

\* A document: its text, how it was made, and the well-formed document (base)
\* it was made from
Document(text, kind, sh) ==
    [text |-> text, kind |-> kind, nevents |-> Len(sh.evs),
     base |-> Flatten(DocLines(sh))]

\* A line of numeric tokens: the fixed record or a row of <init> or <event>
IsRecordLine(l) == l # <<>> /\ from_str_f64(<<l[1]>>) # <<>>

\* Tokens put after the last token of a record line
ExtraTokens == { <<" ", "x">>, <<" ", "0", " ", "1.5">> }

\* The first j tokens of a record line
CutTokens(l, j) == Join([i \in 1..j |-> split_whitespace(l)[i][1]])

\* Lines put before a closing tag
CloserLines ==
    { <<" ", "</init>">>, <<"</init>", " ">>, <<"</init>">>,
      <<" ", "</event>", " ">>, <<"x">> }

Insert(lines, k, l) == SubSeq(lines, 1, k-1) \o <<l>> \o SubSeq(lines, k, Len(lines))

\* The documents made from the well-formed document of a shape: itself, cut
\* after a line, cut inside a line, with one line replaced, with a line added,
\* with tokens added to record lines, with a record line cut short (shapes of
\* at most one event), with a line put before a closing tag
Docs(sh) ==
    { Document(Flatten(DocLines(sh)), "valid", sh) }
    \cup { Document(Flatten(SubSeq(DocLines(sh), 1, k)), "cut", sh) :
               k \in 0..(Len(DocLines(sh)) - 1) }
    \cup { Document(Flatten(SubSeq(DocLines(sh), 1, k-1))
                      \o SubSeq(DocLines(sh)[k], 1, (Len(DocLines(sh)[k]) + 1) \div 2),
                      "cutmid", sh) :
               k \in 1..Len(DocLines(sh)) }
    \cup { Document(Flatten(Replace(DocLines(sh), k, l)), "defect", sh) :
               k \in 1..Len(DocLines(sh)), l \in DefectLines }
    \cup { Document(Flatten(DocLines(sh) \o <<l>>), "trailing", sh) :
               l \in TrailingLines }
    \cup { Document(Flatten(Replace(DocLines(sh), k, DocLines(sh)[k] \o e)), "extra", sh) :
               k \in { i \in 1..Len(DocLines(sh)) : IsRecordLine(DocLines(sh)[i]) },
               e \in ExtraTokens }
    \cup { Document(Flatten([k \in 1..Len(DocLines(sh)) |->
                               IF IsRecordLine(DocLines(sh)[k])
                               THEN DocLines(sh)[k] \o <<" ", "x">>
                               ELSE DocLines(sh)[k]]), "extra", sh) }
    \cup UNION { { Document(Flatten(Replace(DocLines(sh), k,
                                             CutTokens(DocLines(sh)[k], j) \o bad)),
                             "short", sh) :
                      j \in 0..(Len(split_whitespace(DocLines(sh)[k])) - 1),
                      bad \in { <<>>, <<" ", "x">> } } :
                  k \in { i \in 1..Len(DocLines(sh)) :
                             /\ Len(sh.evs) <= 1
                             /\ IsRecordLine(DocLines(sh)[i]) } }
    \cup { Document(Flatten(Insert(DocLines(sh), k, l)), "closer", sh) :
               k \in { i \in 1..Len(DocLines(sh)) :
                          trim(DocLines(sh)[i]) \in {INIT_END, EVENT_END} },
               l \in CloserLines }

(***************************************************************************)
(* The reader as a state machine                                           *)
(***************************************************************************)
NotCalled == [kind |-> "NotCalled", val |-> <<>>]

Init ==
    /\ \E sh \in Shapes : \E d \in Docs(sh) :
         /\ stream = d.text
         /\ doc = d
    /\ prev = <<>>
    /\ state = "start"
    /\ version = <<>>
    /\ header = <<>>
    /\ heprup = <<>>
    /\ newResult = NotCalled
    /\ result = NotCalled
    /\ history = <<>>
    /\ arg = <<>>
    /\ out = <<>>

\* Reader::new(stream)
New ==
    /\ state = "start"
    /\ LET return(r) ==
               /\ prev' = stream
               /\ stream' = r.rest
               /\ state' = IF r.kind = "Ok" THEN "ready"
                           ELSE IF r.kind = "Err" THEN "failed" ELSE "panicked"
               /\ version' = IF r.kind = "Ok" THEN r.val.version ELSE version
               /\ header' = IF r.kind = "Ok" THEN r.val.header ELSE header
               /\ heprup' = IF r.kind = "Ok" THEN r.val.heprup ELSE heprup
               /\ newResult' = [kind |-> r.kind,
                                val |-> IF r.kind = "Ok" THEN <<>> ELSE r.val]
       IN return(Reader_new(stream))
    /\ UNCHANGED <<result, history, doc, arg, out>>

\* Mutant of Event: a call that fails clears the header text of the reader
Event_clears_header ==
    /\ state = "ready"
    /\ Len(history) < MaxCalls
    /\ LET return(r) ==
               /\ prev' = stream
               /\ stream' = r.rest
               /\ state' = IF r.kind = "Panic" THEN "panicked" ELSE state
               /\ result' = [kind |-> r.kind, val |-> r.val]
               /\ history' = Append(history, r.kind)
               /\ header' = IF r.kind = "Err" THEN <<>> ELSE header
       IN return(Reader_event(stream))
    /\ UNCHANGED <<version, heprup, newResult, doc, arg, out>>

\* reader.event()
Event ==
    /\ state = "ready"
    /\ Len(history) < MaxCalls
    /\ LET return(r) ==
               /\ prev' = stream
               /\ stream' = r.rest
               /\ state' = IF r.kind = "Panic" THEN "panicked" ELSE state
               /\ result' = [kind |-> r.kind, val |-> r.val]
               /\ history' = Append(history, r.kind)
       IN return(Reader_event(stream))
    /\ UNCHANGED <<version, header, heprup, newResult, doc, arg, out>>

Next == New \/ Event

Spec == Init /\ [][Next]_vars

(***************************************************************************)
(* Claims about the reader (specification Spec)                            *)
(***************************************************************************)
\* The latest call was a Reader::event call, and prev is the stream it found
EventCalled == history # <<>>

\* C1: on a well-formed document with K event blocks, the first K calls of
\* Reader::event after a successful Reader::new return Ok(Some), and call
\* K+1 returns Ok(None); no sentinel and no error comes earlier.
C1_EventsThenSentinel ==
    doc.kind = "valid" =>
        \A i \in 1..Len(history) :
            /\ i <= doc.nevents => history[i] = "Some"
            /\ i = doc.nevents + 1 => history[i] = "None"

C1_Witness ==
    /\ doc.kind = "valid"
    /\ doc.nevents = 2
    /\ history = <<"Some", "Some", "None">>

\* The sentinel was returned by an earlier call, and the latest call found
\* the input exhausted
AfterSentinelAtEnd ==
    /\ Len(history) >= 2
    /\ \E i \in 1..(Len(history) - 1) : history[i] = "None"
    /\ prev = <<>>

\* C2, as claimed: once the sentinel was returned and the input has no further
\* line, every later call returns the sentinel again.
C2_SentinelAgain == AfterSentinelAtEnd => result.kind = "None"

\* C2, amended: once the sentinel was returned and the input has no further
\* line, every later call fails with BadEventStart carrying the empty line;
\* it returns neither an event nor the sentinel.
C2_BadEventStartAfterSentinel ==
    AfterSentinelAtEnd =>
        /\ result.kind = "Err"
        /\ result.val = BadEventStart(<<>>)

C2_Witness == AfterSentinelAtEnd /\ doc.kind = "valid"

\* C3: Reader::new ends with a reader or a decode error, Reader::event with
\* an event, the sentinel or a decode error; no input makes either panic.
C3_DocumentedOutcomesOnly ==
    /\ newResult.kind \in {"NotCalled", "Ok", "Err"}
    /\ result.kind \in {"NotCalled", "Some", "None", "Err"}

\* C4: in every HEPRUP a successful Reader::new returns, XSECUP, XERRUP,
\* XMAXUP and LPRUP all have length NPRUP.
C4_SubprocessLengths ==
    newResult.kind = "Ok" =>
        /\ Len(heprup.XSECUP) = heprup.NPRUP
        /\ Len(heprup.XERRUP) = heprup.NPRUP
        /\ Len(heprup.XMAXUP) = heprup.NPRUP
        /\ Len(heprup.LPRUP) = heprup.NPRUP

C4_Witness == newResult.kind = "Ok" /\ heprup.NPRUP = 1 /\ Len(heprup.LPRUP) = 1

\* C5: in every HEPEUP Reader::event returns, IDUP, ISTUP, MOTHUP, ICOLUP,
\* PUP, VTIMUP and SPINUP all have length NUP.
C5_ParticleLengths ==
    result.kind = "Some" =>
        /\ Len(result.val.IDUP) = result.val.NUP
        /\ Len(result.val.ISTUP) = result.val.NUP
        /\ Len(result.val.MOTHUP) = result.val.NUP
        /\ Len(result.val.ICOLUP) = result.val.NUP
        /\ Len(result.val.PUP) = result.val.NUP
        /\ Len(result.val.VTIMUP) = result.val.NUP
        /\ Len(result.val.SPINUP) = result.val.NUP

C5_Witness == result.kind = "Some" /\ result.val.NUP = 1 /\ Len(history) = 2

\* Some line of s has the trimmed content tag
RECURSIVE HasLine(_, _)
HasLine(s, tag) ==
    /\ s # <<>>
    /\ \/ trim(read_line(s).line) = tag
       \/ HasLine(read_line(s).rest, tag)

\* The stream s opens an event block that the end of the input cuts short
EventCutShort(s) ==
    /\ trim(read_line(s).line) = EVENT_START
    /\ ~HasLine(read_line(s).rest, EVENT_END)

\* C7: when the input ends inside an event block, before its header line,
\* among its particle lines or in its free text, Reader::event fails with
\* EndOfFile("event").
C7_CutEventIsEndOfFile ==
    (EventCalled /\ doc.kind \in {"cut", "cutmid"} /\ EventCutShort(prev)) =>
        /\ result.kind = "Err"
        /\ result.val = EndOfFile("event")

\* C10: a Reader::event call reads one line and dispatches on its trimmed
\* content: <event> runs the event parser on what follows,
\* </LesHouchesEvents> returns the sentinel, and anything else, a blank line
\* and the end of the input included, fails with BadEventStart carrying the
\* line as read.
C10_Dispatch ==
    EventCalled =>
        \A rl \in {read_line(prev)} : \A t \in {trim(rl.line)} :
           IF t = EVENT_START
           THEN \A ev \in {parse_event(rl.rest)} :
                /\ result.kind \in {"Some", "Err", "Panic"}
                /\ result.kind = "Some" <=> ev.kind = "Ok"
                /\ result.val = ev.val
                /\ stream = ev.rest
           ELSE IF t = LHEF_LAST_LINE
                THEN result.kind = "None" /\ stream = rl.rest
           ELSE /\ result.kind = "Err"
                /\ result.val = BadEventStart(rl.line)
                /\ stream = rl.rest

C10_Witness ==
    /\ EventCalled
    /\ prev # <<>>
    /\ trim(read_line(prev).line) = <<>>
    /\ result.kind = "Err"
    /\ result.val.tag = "BadEventStart"

(***************************************************************************)
(* The functions on their own: each specification draws the input of one   *)
(* function into arg and applies the function once, leaving the result in  *)
(* out.                                                                    *)
(***************************************************************************)
MaxPieces == 5        \* pieces of a first line
MaxHeaderLines == 5   \* lines of a header text
MaxTokens == 11       \* tokens of a fixed record line

InitFunction(inputs) ==
    /\ arg \in inputs
    /\ out = <<>>
    /\ stream = <<>>
    /\ prev = <<>>
    /\ state = "start"
    /\ version = <<>>
    /\ header = <<>>
    /\ heprup = <<>>
    /\ newResult = NotCalled
    /\ result = NotCalled
    /\ history = <<>>
    /\ doc = [kind |-> "function", nevents |-> 0]

Apply(r) ==
    /\ out = <<>>
    /\ out' = <<r>>
    /\ UNCHANGED <<stream, prev, state, version, header, heprup, newResult,
                   result, history, doc, arg>>

RECURSIVE Concat(_)
Concat(texts) == IF texts = <<>> THEN <<>> ELSE Head(texts) \o Concat(Tail(texts))

\* The lines ended by newlines, the last one only if nl
TextOf(lines, nl) ==
    IF lines = <<>> \/ nl THEN Flatten(lines) ELSE pop(Flatten(lines))

\* parse_version: a first line of at most MaxPieces pieces, and what follows
VersionPieces ==
    { LHEF_TAG_OPEN, <<Quote>>, <<"3.0">>, <<"9.9">>, <<">">>, <<" ">>, <<"x">> }

VersionInputs(n) ==
    { [line |-> Concat(ps), tail |-> tl] :
        ps \in UNION { [1..k -> VersionPieces] : k \in 0..n },
        tl \in { <<>>, <<"\n", "<init>", "\n">> } }

Version == Apply(parse_version(arg.line \o arg.tail))

SpecVersion == InitFunction(VersionInputs(MaxPieces)) /\ [][Version]_vars

\* parse: a type, a field name and an optional token
FieldNames ==
    { InitFields[k].name : k \in DOMAIN InitFields }
    \cup { EventFields[k].name : k \in DOMAIN EventFields }
    \cup { InitRowFields(2)[k].name : k \in DOMAIN InitRowFields(2) }
    \cup { EventRowFields(0)[k].name : k \in DOMAIN EventRowFields(0) }

FieldTexts ==
    { <<>>, <<"0">>, <<"1">>, <<"-1">>, <<"+1">>, <<"7">>, <<"0.5">>, <<"1.0">>,
      <<"1.5">>, <<"-1.5">>, <<"abc">>, <<"x">>, <<Quote, "1", Quote>>, <<"1", ",">> }

FieldInputs ==
    { [T |-> T, name |-> n, text |-> t] :
        T \in {"i32", "f64"}, n \in FieldNames,
        t \in {<<>>} \cup { <<x>> : x \in FieldTexts } }

Decode == Apply(parse(arg.T, arg.name, arg.text))

SpecField == InitFunction(FieldInputs) /\ [][Decode]_vars

\* parse_header: a text of at most MaxHeaderLines lines
HeaderLineKinds ==
    { <<"<!--">>, <<" ", "-->">>, <<" ", "<header>", " ">>, <<"</header>">>,
      <<" ", "<init>", " ">>, <<"x">>, <<>> }

HeaderInputs(n) ==
    { [lines |-> ls, nl |-> nl] :
        ls \in UNION { [1..k -> HeaderLineKinds] : k \in 0..n },
        nl \in BOOLEAN }

Accumulate == Apply(parse_header(TextOf(arg.lines, arg.nl)))

SpecHeader == InitFunction(HeaderInputs(MaxHeaderLines)) /\ [][Accumulate]_vars

\* parse_init: a fixed record line of at most MaxTokens tokens, no subprocess
\* line, and the closing tag
RecordTokens == {"0", "1.5", "x"}

RecordInputs(n) ==
    { [tokens |-> ts] : ts \in UNION { [1..k -> RecordTokens] : k \in 0..n } }

RunInfo == Apply(parse_init(Join(arg.tokens) \o <<"\n">> \o INIT_END \o <<"\n">>))

SpecInit == InitFunction(RecordInputs(MaxTokens)) /\ [][RunInfo]_vars

(***************************************************************************)
(* The loops, one turn at a time.  Each action is one read of a line and   *)
(* what the code does with it before the next read; arg holds the place in *)
(* the code and the locals of the loops, header the buffer of parse_header,*)
(* out the count the last read_line returned.  The decoded numbers are     *)
(* dropped: only the flow of control and the stream are kept.              *)
(***************************************************************************)
At(pc, i, n, info) == [pc |-> pc, i |-> i, n |-> n, info |-> info]

Idle == At("idle", 0, 0, <<>>)

\* The documents of the shapes with at most one event: whole, cut after a
\* line, cut inside a line, with a line added
LoopDocs ==
    UNION { { d \in Docs(sh) : d.kind \in {"valid", "cut", "cutmid", "trailing"} } :
              sh \in { x \in Shapes : Len(x.evs) <= 1 } }

InitLoops ==
    /\ \E d \in LoopDocs :
         /\ stream = d.text
         /\ doc = d
    /\ prev = <<>>
    /\ state = "start"
    /\ version = <<>>
    /\ header = <<>>
    /\ heprup = <<>>
    /\ newResult = NotCalled
    /\ result = NotCalled
    /\ history = <<>>
    /\ arg = Idle
    /\ out = 0

\* Mutant of end_of_input: the count read_line returns is never looked at
end_of_input_ignored(rl) == FALSE

\* stream.read_line(..)? == 0
end_of_input(rl) == rl.n = 0

\* The call goes on to the next read
Goto(pc, i, n, info) ==
    /\ state' = "running"
    /\ arg' = At(pc, i, n, info)
    /\ UNCHANGED <<newResult, result, history>>

\* Reader::new returns an error or panics
FailNew(kind, val) ==
    /\ state' = IF kind = "Panic" THEN "panicked" ELSE "failed"
    /\ arg' = Idle
    /\ newResult' = [kind |-> kind, val |-> val]
    /\ UNCHANGED <<result, history>>

\* Reader::new returns the reader
ReturnNew ==
    /\ state' = "ready"
    /\ arg' = Idle
    /\ newResult' = [kind |-> "Ok", val |-> <<>>]
    /\ UNCHANGED <<result, history>>

\* Reader::event returns or panics
ReturnEvent(kind, val) ==
    /\ state' = IF kind = "Panic" THEN "panicked" ELSE "ready"
    /\ arg' = Idle
    /\ result' = [kind |-> kind, val |-> val]
    /\ history' = Append(history, kind)
    /\ UNCHANGED newResult

\* Reader::new: parse_version
Loop_version ==
    /\ state = "start"
    /\ \E r \in {parse_version(stream)} :
         /\ stream' = r.rest
         /\ version' = IF r.kind = "Ok" THEN r.val ELSE version
         /\ IF r.kind = "Ok" THEN Goto("header", 0, 0, <<>>)
            ELSE FailNew(r.kind, r.val)
    /\ prev' = stream
    /\ out' = read_line(stream).n
    /\ UNCHANGED <<header, heprup, doc>>

\* parse_header: one turn of its loop
Loop_header ==
    /\ state = "running"
    /\ arg.pc = "header"
    /\ \E rl \in {read_line(stream)} :
       \E last \in {lines_last(header \o rl.line)} :
         /\ stream' = rl.rest
         /\ out' = rl.n
         /\ IF last = <<>>
            THEN /\ header' = header \o rl.line
                 /\ FailNew("Panic", Panic("unwrap on None", <<>>).val)
            ELSE IF trim(last[1]) = COMMENT_START
                 THEN /\ header' = header \o rl.line
                      /\ Goto("comment", 0, 0, <<>>)
            ELSE IF trim(last[1]) = HEADER_START
                 THEN /\ header' = header \o rl.line
                      /\ Goto("structured", 0, 0, <<>>)
            ELSE IF trim(last[1]) = INIT_START
                 THEN /\ header' = pop_line(header \o rl.line)
                      /\ Goto("init_record", 0, 0, <<>>)
            ELSE /\ header' = header \o rl.line
                 /\ FailNew("Err", BadHeaderStart(trim(last[1])))
    /\ UNCHANGED <<prev, version, heprup, doc>>

\* parse_comment_header: one turn of its loop
Loop_comment ==
    /\ state = "running"
    /\ arg.pc = "comment"
    /\ \E rl \in {read_line(stream)} :
         /\ stream' = rl.rest
         /\ out' = rl.n
         /\ header' = header \o rl.line
         /\ IF end_of_input(rl) THEN FailNew("Err", EndOfFile("header"))
            ELSE IF trim(lines_last(header \o rl.line)[1]) = COMMENT_END
                 THEN Goto("header", 0, 0, <<>>)
            ELSE Goto("comment", 0, 0, <<>>)
    /\ UNCHANGED <<prev, version, heprup, doc>>

\* parse_structured_header: one turn of its loop
Loop_structured ==
    /\ state = "running"
    /\ arg.pc = "structured"
    /\ \E rl \in {read_line(stream)} :
         /\ stream' = rl.rest
         /\ out' = rl.n
         /\ header' = header \o rl.line
         /\ IF end_of_input(rl) THEN FailNew("Err", EndOfFile("header"))
            ELSE IF trim(lines_last(header \o rl.line)[1]) = HEADER_END
                 THEN Goto("header", 0, 0, <<>>)
            ELSE Goto("structured", 0, 0, <<>>)
    /\ UNCHANGED <<prev, version, heprup, doc>>

\* parse_init: the fixed record and the four Vec::with_capacity
Loop_init_record ==
    /\ state = "running"
    /\ arg.pc = "init_record"
    /\ \E rl \in {read_line(stream)} :
       \E head \in {parse_fields(InitFields, split_whitespace(rl.line), 1, <<>>)} :
         /\ stream' = rl.rest
         /\ out' = rl.n
         /\ IF head.kind # "Ok" THEN FailNew("Err", head.val)
            ELSE IF with_capacity_panics(head.val[10])
                 THEN FailNew("Panic", Panic("capacity overflow", <<>>).val)
            ELSE IF 0 < head.val[10] THEN Goto("init_rows", 0, head.val[10], <<>>)
            ELSE Goto("init_info", 0, head.val[10], <<>>)
    /\ UNCHANGED <<prev, version, header, heprup, doc>>

\* parse_init: one turn of for i in 0..NPRUP
Loop_init_row ==
    /\ state = "running"
    /\ arg.pc = "init_rows"
    /\ \E rl \in {read_line(stream)} :
       \E r \in {parse_fields(InitRowFields(arg.i), split_whitespace(rl.line), 1, <<>>)} :
         /\ stream' = rl.rest
         /\ out' = rl.n
         /\ IF r.kind # "Ok" THEN FailNew("Err", r.val)
            ELSE IF arg.i + 1 < arg.n THEN Goto("init_rows", arg.i + 1, arg.n, <<>>)
            ELSE Goto("init_info", arg.i + 1, arg.n, <<>>)
    /\ UNCHANGED <<prev, version, header, heprup, doc>>

\* parse_init: one turn of the info loop
Loop_init_info ==
    /\ state = "running"
    /\ arg.pc = "init_info"
    /\ \E rl \in {read_line(stream)} :
         /\ stream' = rl.rest
         /\ out' = rl.n
         /\ IF end_of_input(rl) THEN FailNew("Err", EndOfFile("init"))
            ELSE IF lines_last(arg.info \o rl.line)[1] = INIT_END THEN ReturnNew
            ELSE Goto("init_info", arg.i, arg.n, arg.info \o rl.line)
    /\ UNCHANGED <<prev, version, header, heprup, doc>>

\* Reader::event: the read and the match
Loop_event ==
    /\ state = "ready"
    /\ Len(history) < MaxCalls
    /\ \E rl \in {read_line(stream)} :
         /\ stream' = rl.rest
         /\ out' = rl.n
         /\ IF trim(rl.line) = EVENT_START THEN Goto("event_record", 0, 0, <<>>)
            ELSE IF trim(rl.line) = LHEF_LAST_LINE THEN ReturnEvent("None", <<>>)
            ELSE ReturnEvent("Err", BadEventStart(rl.line))
    /\ prev' = stream
    /\ UNCHANGED <<version, header, heprup, doc>>

\* parse_event: the fixed record and the seven Vec::with_capacity
Loop_event_record ==
    /\ state = "running"
    /\ arg.pc = "event_record"
    /\ \E rl \in {read_line(stream)} :
       \E head \in {parse_fields(EventFields, split_whitespace(rl.line), 1, <<>>)} :
         /\ stream' = rl.rest
         /\ out' = rl.n
         /\ IF head.kind # "Ok" THEN ReturnEvent("Err", head.val)
            ELSE IF with_capacity_panics(head.val[1])
                 THEN ReturnEvent("Panic", Panic("capacity overflow", <<>>).val)
            ELSE IF 0 < head.val[1] THEN Goto("event_rows", 0, head.val[1], <<>>)
            ELSE Goto("event_info", 0, head.val[1], <<>>)
    /\ UNCHANGED <<prev, version, header, heprup, doc>>

\* parse_event: one turn of for i in 0..NUP
Loop_event_row ==
    /\ state = "running"
    /\ arg.pc = "event_rows"
    /\ \E rl \in {read_line(stream)} :
       \E r \in {parse_fields(EventRowFields(arg.i), split_whitespace(rl.line), 1, <<>>)} :
         /\ stream' = rl.rest
         /\ out' = rl.n
         /\ IF r.kind # "Ok" THEN ReturnEvent("Err", r.val)
            ELSE IF arg.i + 1 < arg.n THEN Goto("event_rows", arg.i + 1, arg.n, <<>>)
            ELSE Goto("event_info", arg.i + 1, arg.n, <<>>)
    /\ UNCHANGED <<prev, version, header, heprup, doc>>

\* parse_event: one turn of the info loop
Loop_event_info ==
    /\ state = "running"
    /\ arg.pc = "event_info"
    /\ \E rl \in {read_line(stream)} :
         /\ stream' = rl.rest
         /\ out' = rl.n
         /\ IF end_of_input(rl) THEN ReturnEvent("Err", EndOfFile("event"))
            ELSE IF trim(lines_last(arg.info \o rl.line)[1]) = EVENT_END
                 THEN ReturnEvent("Some", <<>>)
            ELSE Goto("event_info", arg.i, arg.n, arg.info \o rl.line)
    /\ UNCHANGED <<prev, version, header, heprup, doc>>

NextLoops ==
    \/ Loop_version
    \/ Loop_header
    \/ Loop_comment
    \/ Loop_structured
    \/ Loop_init_record
    \/ Loop_init_row
    \/ Loop_init_info
    \/ Loop_event
    \/ Loop_event_record
    \/ Loop_event_row
    \/ Loop_event_info

SpecLoops == InitLoops /\ [][NextLoops]_vars

(***************************************************************************)
(* Claims about the functions                                              *)
(***************************************************************************)
HasQuote(s) == FirstIndex(s, Quote) # 0

\* The text of s before its first quote, all of s when it has none
BeforeQuote(s) ==
    IF HasQuote(s) THEN SubSeq(s, 1, FirstIndex(s, Quote) - 1) ELSE s

\* The text of s after its first quote
AfterQuote(s) ==
    IF HasQuote(s) THEN SubSeq(s, FirstIndex(s, Quote) + 1, Len(s)) ELSE <<>>

IntegerTenths ==
    { <<(<<ToString(i)>>), 10 * i>> : i \in -9..9 } \cup { <<(<<"+1">>), 10>> }
DecimalTenths ==
    { <<(<<"0.5">>), 5>>, <<(<<"1.0">>), 10>>, <<(<<"1.5">>), 15>>,
      <<(<<"-1.5">>), -15>> }
Denoted(T) == IF T = "i32" THEN IntegerTenths ELSE IntegerTenths \cup DecimalTenths

\* C8: parse fails with MissingEntry carrying the field name when the token
\* is absent, with ConversionError carrying the token when it is no numeral
\* of the type, and returns the number otherwise.
C8_FieldDecoder ==
    out # <<>> =>
        LET r == out[1]
        IN IF arg.text = <<>>
           THEN r.kind = "Err" /\ r.val = MissingEntry(arg.name)
           ELSE IF \A d \in Denoted(arg.T) : d[1] # arg.text[1]
                THEN r.kind = "Err" /\ r.val = ConversionError(arg.text[1])
           ELSE /\ r.kind = "Ok"
                /\ <<arg.text[1], IF arg.T = "i32" THEN 10 * r.val ELSE r.val>>
                       \in Denoted(arg.T)

C8_Witness ==
    /\ out # <<>>
    /\ arg.T = "f64"
    /\ arg.name = <<"EBMUP(1)">>
    /\ arg.text = <<(<<"abc">>)>>
    /\ out[1].kind = "Err"
    /\ out[1].val = ConversionError(<<"abc">>)

\* The index of the first line at or after i whose trimmed content is tag,
\* 0 when there is none
RECURSIVE LineIndex(_, _, _)
LineIndex(lines, i, tag) ==
    IF i > Len(lines) THEN 0
    ELSE IF trim(lines[i]) = tag THEN i
    ELSE LineIndex(lines, i+1, tag)

\* The index of the <init> line when the lines from i on are comment blocks
\* and structured-header blocks followed by the <init> line, 0 otherwise
RECURSIVE InitIndex(_, _)
InitIndex(lines, i) ==
    LET closing(j) == IF j = 0 THEN 0 ELSE InitIndex(lines, j+1)
    IN IF i > Len(lines) THEN 0
       ELSE IF trim(lines[i]) = INIT_START THEN i
       ELSE IF trim(lines[i]) = COMMENT_START
            THEN closing(LineIndex(lines, i+1, COMMENT_END))
       ELSE IF trim(lines[i]) = HEADER_START
            THEN closing(LineIndex(lines, i+1, HEADER_END))
       ELSE 0

\* C9: on comment blocks and structured-header blocks in any number and
\* order followed by the <init> line, parse_header returns the text of all
\* lines before the <init> line, unchanged and in order, without the <init>
\* line, and leaves the stream at the line after it.
C9_HeaderText ==
    out # <<>> =>
        LET k == InitIndex(arg.lines, 1)
        IN k > 0 =>
            /\ out[1].kind = "Ok"
            /\ out[1].val = Flatten(SubSeq(arg.lines, 1, k-1))
            /\ out[1].rest = TextOf(SubSeq(arg.lines, k+1, Len(arg.lines)), arg.nl)

C9_Witness ==
    /\ out # <<>>
    /\ arg.lines = << <<"<!--">>, <<"x">>, <<" ", "-->">>,
                      <<" ", "<init>", " ">>, <<"x">> >>
    /\ out[1].kind = "Ok"
    /\ out[1].val # <<>>
    /\ out[1].rest # <<>>

\* The token tok is a numeral of type T
Numeral(T, tok) == \E d \in Denoted(T) : d[1] = <<tok>>

\* The first position of tokens, among those that have a type, whose token
\* is no numeral of the type of the position; 0 when there is none
FirstBad(types, tokens) ==
    LET bad == { p \in 1..Len(types) :
                   p <= Len(tokens) /\ ~Numeral(types[p], tokens[p]) }
    IN IF bad = {} THEN 0 ELSE CHOOSE p \in bad : \A q \in bad : p <= q

\* The types of the fixed record of the run-info block: two beam ids, two
\* beam energies, two PDF group ids, two PDF set ids, the weight code, N
RecordTypes ==
    <<"i32", "i32", "f64", "f64", "i32", "i32", "i32", "i32", "i32", "i32">>

\* C11, as claimed: a first line of the run-info block carrying fewer than
\* 12 tokens (here: all of them decodable) is rejected with MissingEntry.
C11_TwelveTokens ==
    (out # <<>> /\ Len(arg.tokens) < 12 /\ FirstBad(RecordTypes, arg.tokens) = 0) =>
        /\ out[1].kind = "Err"
        /\ out[1].val.tag = "MissingEntry"

\* C11, amended: the fixed record is decoded from exactly 10 leading tokens,
\* by position.  A line whose first undecodable token is among them fails
\* with ConversionError carrying that token; a line of fewer than 10 tokens,
\* all decodable, fails with MissingEntry naming the first absent field; a
\* line of 10 or more tokens, the first 10 decodable, is accepted.
C11_TenTokens ==
    out # <<>> =>
        LET n == Len(arg.tokens)
            bad == FirstBad(RecordTypes, arg.tokens)
            r == out[1]
        IN IF bad # 0
           THEN r.kind = "Err" /\ r.val = ConversionError(<<arg.tokens[bad]>>)
           ELSE IF n < 10
                THEN r.kind = "Err" /\ r.val = MissingEntry(InitFields[n+1].name)
           ELSE /\ r.kind = "Ok"
                /\ \A k \in 1..2 :
                     /\ << <<arg.tokens[k]>>, 10 * r.val.IDBMUP[k] >> \in Denoted("i32")
                     /\ << <<arg.tokens[2+k]>>, r.val.EBMUP[k] >> \in Denoted("f64")
                     /\ << <<arg.tokens[4+k]>>, 10 * r.val.PDFGUP[k] >> \in Denoted("i32")
                     /\ << <<arg.tokens[6+k]>>, 10 * r.val.PDFSUP[k] >> \in Denoted("i32")
                /\ << <<arg.tokens[9]>>, 10 * r.val.IDWTUP >> \in Denoted("i32")
                /\ << <<arg.tokens[10]>>, 10 * r.val.NPRUP >> \in Denoted("i32")

C11_Witness ==
    /\ out # <<>>
    /\ Len(arg.tokens) = 10
    /\ arg.tokens[3] = "1.5"
    /\ out[1].kind = "Ok"
    /\ out[1].val.EBMUP[1] = 15

(***************************************************************************)
(* Claims about the reader, continued (specification Spec)                 *)
(***************************************************************************)
\* The text of a line without its terminator
LineContent(l) ==
    IF l # <<>> /\ l[Len(l)] = "\n" THEN SubSeq(l, 1, Len(l) - 1) ELSE l

\* The lines of a text
RECURSIVE Lines(_)
Lines(s) ==
    IF s = <<>> THEN <<>>
    ELSE <<LineContent(read_line(s).line)>> \o Lines(read_line(s).rest)

\* Line k of the lines ls; past the end of the input a read gives no text
LineAt(ls, k) == IF k <= Len(ls) THEN ls[k] ELSE <<>>

\* The tokens of a line whose tokens are single words
Tokens(l) == [k \in 1..Len(split_whitespace(l)) |-> split_whitespace(l)[k][1]]

\* The number an integer numeral denotes
IntValue(tok) == (CHOOSE d \in Denoted("i32") : d[1] = <<tok>>)[2] \div 10

\* The name of a field with the 1-based row number i in the place of its index
ReIndex(name, i) == [k \in DOMAIN name |-> IF k = 3 THEN ToString(i) ELSE name[k]]

\* What a line makes of the fields of row i: the failure of its first
\* undecodable token, else of its first absent token, else nothing
Failure(fields, i, line) ==
    LET bad == FirstBad([k \in DOMAIN fields |-> fields[k].T], Tokens(line))
    IN IF bad # 0 THEN <<ConversionError(<<Tokens(line)[bad]>>)>>
       ELSE IF Len(Tokens(line)) < Len(fields)
            THEN <<MissingEntry(ReIndex(fields[Len(Tokens(line)) + 1].name, i))>>
       ELSE <<>>

\* The first failure among the rows i..N, row i being line first + i of ls
RECURSIVE RowFailure(_, _, _, _, _)
RowFailure(fields, ls, first, i, N) ==
    IF i > N THEN <<>>
    ELSE IF Failure(fields, i, LineAt(ls, first + i)) # <<>>
         THEN Failure(fields, i, LineAt(ls, first + i))
    ELSE RowFailure(fields, ls, first, i + 1, N)

\* The first failure of a block whose fixed record is line first of ls and
\* whose rows follow, their number being token count of the fixed record
BlockFailure(record, count, row, ls, first) ==
    IF Failure(record, 0, LineAt(ls, first)) # <<>>
    THEN Failure(record, 0, LineAt(ls, first))
    ELSE RowFailure(row, ls, first, 1, IntValue(Tokens(LineAt(ls, first))[count]))

\* The text that follows the <init> line of the document
InitText == parse_header(parse_version(doc.text).rest).rest

FieldFailure(r) ==
    r.kind = "Err" /\ r.val.tag \in {"MissingEntry", "ConversionError"}

\* The names of all fields of a block with up to n rows
FieldNamesUpTo(n) ==
    { InitFields[k].name : k \in DOMAIN InitFields }
    \cup { EventFields[k].name : k \in DOMAIN EventFields }
    \cup { ReIndex(InitRowFields(0)[k].name, i) :
              k \in DOMAIN InitRowFields(0), i \in 1..n }
    \cup { ReIndex(EventRowFields(0)[k].name, i) :
              k \in DOMAIN EventRowFields(0), i \in 1..n }

FieldNamesOfTwoRows == FieldNamesUpTo(2)

\* C12, as claimed: every field-decode failure of the run-info block or of an
\* event block, a missing token and an unparseable token alike, carries the
\* name of the field that failed.
C12_EveryFailureNamesField ==
    /\ FieldFailure(newResult) => newResult.val.arg \in FieldNamesUpTo(MaxNPRUP + 1)
    /\ FieldFailure(result) => result.val.arg \in FieldNamesUpTo(MaxNUP + 1)

\* C12, amended: a missing token fails with MissingEntry carrying the name
\* of the first field without a token, with the 1-based number of the row
\* for the fields of a row, and the names of different field positions of a
\* block differ; an unparseable token fails with ConversionError carrying
\* the token and nothing of its position.
C12_MissingEntryNamesField ==
    /\ Cardinality(FieldNamesOfTwoRows) = 10 + 6 + 2 * 4 + 2 * 13
    /\ FieldFailure(newResult) =>
           <<newResult.val>> =
               BlockFailure(InitFields, 10, InitRowFields(0), Lines(InitText), 1)
    /\ FieldFailure(result) =>
           <<result.val>> =
               BlockFailure(EventFields, 1, EventRowFields(0), Lines(prev), 2)

C12_Witness ==
    /\ FieldFailure(newResult)
    /\ newResult.val = MissingEntry(<<"XERRUP", "(", "1", ")">>)

\* The text the latest call read
Consumed == SubSeq(prev, 1, Len(prev) - Len(stream))

\* The text s without its first n lines
RECURSIVE DropLines(_, _)
DropLines(s, n) == IF n = 0 THEN s ELSE DropLines(read_line(s).rest, n - 1)

\* The index of the first line at or after i whose content is exactly tag,
\* 0 when there is none
RECURSIVE ExactIndex(_, _, _)
ExactIndex(lines, i, tag) ==
    IF i > Len(lines) THEN 0
    ELSE IF lines[i] = tag THEN i
    ELSE ExactIndex(lines, i+1, tag)

\* C13: the run-info block is closed by the first line after its rows whose
\* content is exactly </init>; an indented </init> line, or one followed by a
\* blank, is part of the info text.  An event block is closed by the first
\* line after its rows whose trimmed content is </event>.  In both, the info
\* text is exactly the lines between the last row and the closing line, and
\* the stream is left after the closing line.
C13_ClosingTags ==
    /\ (newResult.kind = "Ok" /\ history = <<>>) =>
          \A text \in {InitText} : \A ls \in {Lines(text)} :
          \A c \in {ExactIndex(ls, 2 + heprup.NPRUP, INIT_END)} :
             /\ c > 0
             /\ heprup.info = Flatten(SubSeq(ls, 2 + heprup.NPRUP, c - 1))
             /\ stream = DropLines(text, c)
    /\ result.kind = "Some" =>
          \A ls \in {Lines(prev)} :
          \A c \in {LineIndex(ls, 3 + result.val.NUP, EVENT_END)} :
             /\ c > 0
             /\ result.val.info = Flatten(SubSeq(ls, 3 + result.val.NUP, c - 1))
             /\ stream = DropLines(prev, c)

C13_Witness ==
    /\ newResult.kind = "Ok"
    /\ heprup.info = FreeText \o <<"\n", " ", "</init>", "\n">>
    /\ result.kind = "Some"
    /\ result.val.info = FreeText \o <<"\n">>
    /\ LineContent(read_line(DropLines(Consumed, 3 + result.val.NUP)).line)
           = <<" ", "</event>", " ">>

\* The input ends inside the run-info block: the <init> line was read and no
\* line of what follows is exactly </init>
InitCutShort ==
    /\ parse_version(doc.text).kind = "Ok"
    /\ parse_header(parse_version(doc.text).rest).kind = "Ok"
    /\ ExactIndex(Lines(InitText), 1, INIT_END) = 0

\* C14: when the input ends inside the run-info block, before its fixed
\* record line, among its subprocess lines or in its free text, Reader::new
\* fails with EndOfFile("init").
C14_CutInitIsEndOfFile ==
    (newResult.kind # "NotCalled" /\ doc.kind = "cut" /\ InitCutShort) =>
        /\ newResult.kind = "Err"
        /\ newResult.val = EndOfFile("init")

\* The stream is what was left of prev by a call that read whole lines
ReadWholeLines ==
    /\ Len(stream) <= Len(prev)
    /\ stream = SubSeq(prev, Len(prev) - Len(stream) + 1, Len(prev))
    /\ \/ stream = <<>>
       \/ Consumed = <<>>
       \/ Consumed[Len(Consumed)] = "\n"

\* The error e of a block is the failure of line n of the block, line 1
\* being its fixed record and line 1 + i its row i
FailureOfLine(e, record, row, line, n) ==
    /\ n >= 1
    /\ <<e>> = IF n = 1 THEN Failure(record, 0, line) ELSE Failure(row, n - 1, line)

\* The number of lines of the document up to and including its <init> line
InitLineNumber == Len(Lines(doc.text)) - Len(Lines(InitText))

\* The error e of Reader::new is the error of the last line it read
NewErrorOfLastLine(e, ls) ==
    IF e.tag = "BadFirstLine" THEN Len(ls) = 1 /\ e.arg = Consumed
    ELSE IF e.tag \in {"UnsupportedVersion", "MissingVersion"} THEN Len(ls) = 1
    ELSE IF e.tag = "BadHeaderStart" THEN e.arg = trim(ls[Len(ls)])
    ELSE IF e.tag \in {"MissingEntry", "ConversionError"}
         THEN FailureOfLine(e, InitFields, InitRowFields(0), ls[Len(ls)],
                            Len(ls) - InitLineNumber)
    ELSE FALSE

\* The error e of Reader::event is the error of the last line it read
EventErrorOfLastLine(e, ls) ==
    IF e.tag = "BadEventStart" THEN Len(ls) = 1 /\ e.arg = Consumed
    ELSE IF e.tag \in {"MissingEntry", "ConversionError"}
         THEN FailureOfLine(e, EventFields, EventRowFields(0), ls[Len(ls)],
                            Len(ls) - 1)
    ELSE FALSE

\* C16: a call that fails has read whole lines up to the offending line and
\* nothing after it: the stream is left right after the last line read, and
\* as long as input is left that line is the one the error is about.
C16_ErrorStopsAtLine ==
    /\ (newResult.kind = "Err" /\ history = <<>>) =>
          /\ ReadWholeLines
          /\ stream # <<>> => NewErrorOfLastLine(newResult.val, Lines(Consumed))
    /\ (EventCalled /\ result.kind = "Err") =>
          /\ ReadWholeLines
          /\ stream # <<>> => EventErrorOfLastLine(result.val, Lines(Consumed))

C16_Witness ==
    /\ EventCalled
    /\ result.kind = "Err"
    /\ result.val = ConversionError(<<"x">>)
    /\ Len(Lines(Consumed)) = 3
    /\ stream # <<>>

\* C17: after a successful Reader::new, version, header and heprup keep the
\* values Reader::new gave them, whatever Reader::event calls were made since
\* and whatever they returned.
C17_RunDataFixed ==
    [][newResult.kind = "Ok" =>
           /\ version' = version
           /\ header' = header
           /\ heprup' = heprup]_vars

C17_Witness ==
    /\ newResult.kind = "Ok"
    /\ history = <<"Some", "None", "Err">>
    /\ header # <<>>
    /\ heprup.NPRUP = 1

\* C18: what a Reader::event call returns on an event block is what the
\* event parser makes of the lines the call read, whatever follows them and
\* whatever version, header, run information and events were decoded
\* before; the process id of the event is not looked up in LPRUP.
C18_EventFromItsLines ==
    (EventCalled /\ trim(read_line(prev).line) = EVENT_START) =>
        \A ev \in {parse_event(read_line(Consumed).rest)} :
        /\ result.kind = "Some" <=> ev.kind = "Ok"
        /\ result.kind # "Some" => result.kind = ev.kind
        /\ result.val = ev.val

C18_Witness ==
    /\ result.kind = "Some"
    /\ heprup.NPRUP = 1
    /\ \A k \in DOMAIN heprup.LPRUP : heprup.LPRUP[k] # result.val.IDRUP
    /\ Len(history) = 2
    /\ stream # <<>>

\* What call n of Reader::event returns on a reader whose stream is s
RECURSIVE Replay(_, _)
Replay(s, n) == IF n <= 1 THEN Reader_event(s) ELSE Replay(Reader_event(s).rest, n - 1)

\* C20: tokens after the last field of a record line are ignored: a document
\* whose fixed record lines and row lines carry more tokens is decoded as the
\* document without them, run information and every event alike.
C20_ExtraTokensIgnored ==
    doc.kind = "extra" =>
        \A made \in {Reader_new(doc.base)} :
        /\ newResult.kind # "NotCalled" =>
              /\ newResult.kind = "Ok"
              /\ heprup = made.val.heprup
        /\ EventCalled =>
              \A ev \in {Replay(made.rest, Len(history))} :
              /\ result.kind = ev.kind
              /\ result.val = ev.val

C20_Witness ==
    /\ doc.kind = "extra"
    /\ result.kind = "Some"
    /\ heprup.NPRUP = 1
    /\ result.val.NUP = 1
    /\ Len(Tokens(Lines(Consumed)[2])) = 7
    /\ Len(Tokens(Lines(Consumed)[3])) = 14

(***************************************************************************)
(* Claims about the functions, continued                                   *)
(***************************************************************************)
\* The error the blocks from line i on must end in: EndOfFile("header") when
\* a block opened is not closed by its own closing marker, BadHeaderStart
\* when the line at the place of an opener is no opener; nothing when the
\* <init> line or the end of the input comes at the place of an opener
RECURSIVE HeaderError(_, _)
HeaderError(lines, i) ==
    LET closing(j) ==
            IF j = 0 THEN <<EndOfFile("header")>> ELSE HeaderError(lines, j+1)
    IN IF i > Len(lines) THEN <<>>
       ELSE IF trim(lines[i]) = INIT_START THEN <<>>
       ELSE IF trim(lines[i]) = COMMENT_START
            THEN closing(LineIndex(lines, i+1, COMMENT_END))
       ELSE IF trim(lines[i]) = HEADER_START
            THEN closing(LineIndex(lines, i+1, HEADER_END))
       ELSE <<BadHeaderStart(trim(lines[i]))>>

\* C15: parse_header fails with EndOfFile("header") when the input ends
\* after a <!-- or <header> line and before a line whose trimmed content is
\* the closing marker of that block, and with BadHeaderStart carrying the
\* line, trimmed, when the line at the place of a block opener is none of
\* <!--, <header>, <init>.
C15_HeaderErrors ==
    out # <<>> =>
        LET e == HeaderError(Lines(TextOf(arg.lines, arg.nl)), 1)
        IN e # <<>> => (out[1].kind = "Err" /\ out[1].val = e[1])

C15_Witness ==
    /\ out # <<>>
    /\ arg.lines = << <<"<!--">>, <<" ", "-->">>, <<" ", "<header>", " ">>,
                      <<" ", "-->">>, <<"x">> >>
    /\ out[1].kind = "Err"
    /\ out[1].val = EndOfFile("header")

(***************************************************************************)
(* Claims about the loops (specification SpecLoops)                        *)
(***************************************************************************)
\* The big-step reader and the loops agree on how a call ends and where it
\* leaves the stream
LoopsAgree ==
    /\ (newResult.kind # "NotCalled" /\ history = <<>> /\ state # "running") =>
          /\ newResult.kind = Reader_new(doc.text).kind
          /\ stream = Reader_new(doc.text).rest
          /\ newResult.kind = "Ok" => header = Reader_new(doc.text).val.header
    /\ (history # <<>> /\ state # "running") =>
          /\ result.kind = Reader_event(prev).kind
          /\ stream = Reader_event(prev).rest

\* C19: every Reader::new and Reader::event call on a finite input ends:
\* every turn of a loop after which the call is still running has taken
\* at least one further atom off the finite stream, so no turn at the end of
\* the input leaves the call running.
C19_EveryTurnReadsOrEnds == [][state' = "running" => Len(stream') < Len(stream)]_vars

C19_Witness ==
    /\ doc.kind = "cut"
    /\ state = "ready"
    /\ history = <<"Err">>
    /\ result.val = EndOfFile("event")
    /\ header # <<>>
    /\ stream = <<>>

====
